---- MODULE Spec2Model ----
(***************************************************************************)
(* Model of setup.py of fluvius-ordinal: a module body of three statements *)
(* (docstring, `from setuptools import setup`, `setup()`) executed by the  *)
(* interpreter, together with the environment the statements act on: the   *)
(* external manifest pyproject.toml, sys.argv, the file system, the output *)
(* stream and the status handed back to whoever ran or loaded the module.  *)
(*                                                                         *)
(* setuptools.setup is not code of this repository.  It is modelled as a   *)
(* deterministic function of what it can read (its keyword attributes, the *)
(* manifest, the command line), after the behaviour of setuptools 65.5.1:  *)
(* a malformed manifest is rejected before the command line is parsed, the *)
(* whole command line is validated before any command runs, a command that *)
(* raises leaves the earlier commands' files in place, and a missing       *)
(* manifest is no error (the distribution is built as UNKNOWN-0.0.0).      *)
(* setuptools is taken to be installed, so the import resolves.            *)
(***************************************************************************)
EXTENDS Integers, Sequences, FiniteSets, TLC

VARIABLES
    pc,          \* position in the module body
    module_name, \* __name__: "__main__" when run as a script, "setup" when loaded
    bound,       \* module-level names bound so far
    sys_argv,    \* sys.argv[1:]
    pyproject,   \* the external declarative manifest, as it is on disk
    fs,          \* persisted artifacts on the file system
    out,         \* lines written to the output stream
    exc,         \* the exception in flight, or the one that ended the run
    exit_code,   \* <<>> while running, <<status>> once handed to the invoking environment
    calls,       \* history: one record per call made to the packaging procedure
    argv0,       \* history: sys.argv[1:] at invocation
    pyproject0,  \* history: the manifest at invocation
    fs0          \* history: the file system at invocation

vars == <<pc, module_name, bound, sys_argv, pyproject, fs, out, exc, exit_code,
          calls, argv0, pyproject0, fs0>>

----------------------------------------------------------------------------
\* Bounds of the model.

\* longest command line explored
MaxArgs == 2

----------------------------------------------------------------------------
\* The environment's value spaces.

Commands == {"sdist", "build", "install", "bogus"}

KnownCommands == {"sdist", "build", "install"}

NoError == "none"

Errors == {"ConfigMalformed", "NoCommands", "InvalidCommand", "DependencyUnresolved"}

ArgLists == UNION {[1..n -> Commands] : n \in 0..MaxArgs}

Manifest(kind, name, version) == [kind |-> kind, name |-> name, version |-> version]

AbsentManifest == Manifest("absent", "", "")

ValidManifests == {Manifest("valid", n, v) : n \in {"example", "other"}, v \in {"1.0", "2.0"}}

Manifests == ValidManifests \cup
             {AbsentManifest, Manifest("malformed", "", ""),
              Manifest("unresolvable", "example", "1.0")}

PreExisting == SUBSET {[kind |-> "sdist", name |-> "old", version |-> "0.9"]}

ModuleNames == {"__main__", "setup"}

----------------------------------------------------------------------------
\* The packaging procedure, setuptools.setup(**attrs).

Artifact(kind, meta) == [kind |-> kind, name |-> meta.name, version |-> meta.version]

\* Metadata of the distribution: keyword attributes first, then the manifest's
\* project table over them; with neither, setuptools' defaults.
Metadata(attrs, cfg) ==
    IF cfg.kind \in {"valid", "unresolvable"}
    THEN [name |-> cfg.name, version |-> cfg.version]
    ELSE IF attrs # {}
         THEN [name |-> (CHOOSE a \in attrs : a[1] = "name")[2], version |-> "0.0.0"]
         ELSE [name |-> "UNKNOWN", version |-> "0.0.0"]

\* Where the applied metadata came from.
MetadataSources(attrs, cfg) ==
    (IF cfg.kind \in {"valid", "unresolvable"} THEN {"manifest"} ELSE {}) \cup
    (IF attrs # {} THEN {"call"} ELSE {})

\* One command: what it writes, what it prints, and whether it raises.
RunCommand(cmd, meta, cfg) ==
    CASE cmd = "sdist" ->
           [error |-> NoError,
            artifacts |-> {Artifact("egg-info", meta), Artifact("sdist", meta)}]
      [] cmd = "build" ->
           [error |-> NoError, artifacts |-> {Artifact("build", meta)}]
      [] OTHER ->
           IF cfg.kind = "unresolvable"
           THEN [error |-> "DependencyUnresolved",
                 artifacts |-> {Artifact("build", meta), Artifact("egg-info", meta)}]
           ELSE [error |-> NoError,
                 artifacts |-> {Artifact("build", meta), Artifact("egg-info", meta),
                                Artifact("installed", meta)}]

\* The commands in order; the first one that raises ends the run and what the
\* earlier ones wrote stays.
RECURSIVE RunCommands(_, _, _)
RunCommands(cmds, meta, cfg) ==
    IF cmds = <<>>
    THEN [error |-> NoError, artifacts |-> {}, output |-> <<>>]
    ELSE LET first == RunCommand(Head(cmds), meta, cfg)
             rest  == RunCommands(Tail(cmds), meta, cfg)
         IN  IF first.error # NoError
             THEN [error |-> first.error, artifacts |-> first.artifacts,
                   output |-> <<Head(cmds)>>]
             ELSE [error |-> rest.error,
                   artifacts |-> first.artifacts \cup rest.artifacts,
                   output |-> <<Head(cmds)>> \o rest.output]

\* setup(**attrs) run against manifest cfg with command line args: the manifest
\* is parsed first, then the whole command line, then the commands run.
setup(attrs, cfg, args) ==
    LET nothing(err) == [error |-> err, artifacts |-> {}, output |-> <<>>,
                         sources |-> {}]
    IN  IF cfg.kind = "malformed" THEN nothing("ConfigMalformed")
        ELSE IF args = <<>> THEN nothing("NoCommands")
        ELSE IF \E i \in 1..Len(args) : args[i] \notin KnownCommands
             THEN nothing("InvalidCommand")
        ELSE LET r == RunCommands(args, Metadata(attrs, cfg), cfg)
             IN  [error |-> r.error, artifacts |-> r.artifacts, output |-> r.output,
                  sources |-> MetadataSources(attrs, cfg)]

\* The status the interpreter hands back: 0 when the module body ran to its end,
\* 1 when an exception (SystemExit with a message included) left it.
ExitStatus(err) == IF err = NoError THEN 0 ELSE 1

\* Running the packaging procedure directly against a manifest and a command line.
Direct(cfg, args) == setup({}, cfg, args)

----------------------------------------------------------------------------
\* The module body of setup.py, one action per statement.

Terminal == {"completed", "failed"}

Init ==
    /\ pc = "start"
    /\ module_name \in ModuleNames
    /\ bound = {}
    /\ sys_argv \in ArgLists
    /\ pyproject \in Manifests
    /\ fs \in PreExisting
    /\ out = <<>>
    /\ exc = NoError
    /\ exit_code = <<>>
    /\ calls = <<>>
    /\ argv0 = sys_argv
    /\ pyproject0 = pyproject
    /\ fs0 = fs

BindDocstringPrints ==
    /\ pc = "start"
    /\ pc' = "documented"
    /\ bound' = bound \cup {"__doc__"}
    /\ out' = Append(out, "banner")
    /\ UNCHANGED <<module_name, sys_argv, pyproject, fs, exc, exit_code, calls,
                   argv0, pyproject0, fs0>>

\* The docstring: binds __doc__ and nothing else.
BindDocstring ==
    /\ pc = "start"
    /\ pc' = "documented"
    /\ bound' = bound \cup {"__doc__"}
    /\ UNCHANGED <<module_name, sys_argv, pyproject, fs, out, exc, exit_code, calls,
                   argv0, pyproject0, fs0>>

\* from setuptools import setup: binds the name setup.
ImportSetup ==
    /\ pc = "documented"
    /\ pc' = "imported"
    /\ bound' = bound \cup {"setup"}
    /\ UNCHANGED <<module_name, sys_argv, pyproject, fs, out, exc, exit_code, calls,
                   argv0, pyproject0, fs0>>

SetupAttrsNamed == {<<"name", "fluvius-ordinal">>}

\* The keyword attributes of the call: setup() has an empty argument list.
SetupAttrs == {}

\* A call of the bound procedure: it reads the manifest and the command line
\* itself, writes its artifacts and output, and returns or raises.
Invoke(attrs, args) ==
    LET r == setup(attrs, pyproject, args)
    IN  /\ "setup" \in bound
        /\ fs' = fs \cup r.artifacts
        /\ out' = out \o r.output
        /\ exc' = r.error
        /\ calls' = Append(calls, [attrs |-> attrs, args |-> args, error |-> r.error,
                                   sources |-> r.sources])
        /\ pc' = IF r.error = NoError THEN "returned" ELSE "raised"
        /\ UNCHANGED <<module_name, bound, sys_argv, pyproject, exit_code,
                       argv0, pyproject0, fs0>>

CallSetupMainGuard ==
    /\ pc = "imported"
    /\ IF module_name = "__main__"
       THEN Invoke(SetupAttrs, sys_argv)
       ELSE /\ pc' = "returned"
            /\ UNCHANGED <<module_name, bound, sys_argv, pyproject, fs, out, exc,
                           exit_code, calls, argv0, pyproject0, fs0>>

CallSetupScriptArgs ==
    /\ pc = "imported"
    /\ Invoke(SetupAttrs, IF sys_argv = <<>> THEN <<>> ELSE Tail(sys_argv))

\* setup(): at module level, under no condition and in no try block; the
\* procedure takes its command line from sys.argv.
CallSetup ==
    /\ pc = "imported"
    /\ Invoke(SetupAttrs, sys_argv)

PropagateSwallow ==
    /\ pc = "raised"
    /\ pc' = "completed"
    /\ exc' = NoError
    /\ exit_code' = <<0>>
    /\ UNCHANGED <<module_name, bound, sys_argv, pyproject, fs, out, calls,
                   argv0, pyproject0, fs0>>

PropagateWrapped ==
    /\ pc = "raised"
    /\ pc' = "failed"
    /\ exc' = "ShimError"
    /\ exit_code' = <<1>>
    /\ UNCHANGED <<module_name, bound, sys_argv, pyproject, fs, out, calls,
                   argv0, pyproject0, fs0>>

PropagateOwnCode ==
    /\ pc = "raised"
    /\ pc' = "failed"
    /\ exit_code' = <<2>>
    /\ UNCHANGED <<module_name, bound, sys_argv, pyproject, fs, out, exc, calls,
                   argv0, pyproject0, fs0>>

PropagateWaits ==
    /\ pc = "raised"
    /\ UNCHANGED vars

\* An exception raised by the call meets no handler in the module body: it
\* leaves the module as it is and the interpreter reports it.
Propagate ==
    /\ pc = "raised"
    /\ pc' = "failed"
    /\ exit_code' = <<ExitStatus(exc)>>
    /\ UNCHANGED <<module_name, bound, sys_argv, pyproject, fs, out, exc, calls,
                   argv0, pyproject0, fs0>>

ModuleEndCleans ==
    /\ pc = "returned"
    /\ pc' = "completed"
    /\ fs' = fs0
    /\ exit_code' = <<ExitStatus(exc)>>
    /\ UNCHANGED <<module_name, bound, sys_argv, pyproject, out, exc, calls,
                   argv0, pyproject0, fs0>>

ModuleEndRewritesManifest ==
    /\ pc = "returned"
    /\ pc' = "completed"
    /\ pyproject' = AbsentManifest
    /\ exit_code' = <<ExitStatus(exc)>>
    /\ UNCHANGED <<module_name, bound, sys_argv, fs, out, exc, calls,
                   argv0, pyproject0, fs0>>

\* The call returned and its value is dropped; no statement follows, so the
\* module body ends.
ModuleEnd ==
    /\ pc = "returned"
    /\ pc' = "completed"
    /\ exit_code' = <<ExitStatus(exc)>>
    /\ UNCHANGED <<module_name, bound, sys_argv, pyproject, fs, out, exc, calls,
                   argv0, pyproject0, fs0>>

Next ==
    \/ BindDocstring
    \/ ImportSetup
    \/ CallSetup
    \/ Propagate
    \/ ModuleEnd

Spec == Init /\ [][Next]_vars

\* The interpreter runs the module body statement by statement on one thread:
\* a statement that can run does run.
FairSpec == Spec /\ WF_vars(Next)

----------------------------------------------------------------------------
\* Properties.

Ended == pc \in Terminal

\* What running the packaging procedure directly on this run's inputs gives.
Expected == Direct(pyproject0, argv0)

\* C1: with a valid manifest and any command line, a finished run of the shim
\* has the outcome of the direct run: the same artifacts added to the file
\* system, the same output, the same metadata sources, the same error (or
\* none), the same terminal state and the same status.
PassThroughEquivalence ==
    (Ended /\ pyproject0.kind \in {"valid", "unresolvable"}) =>
        /\ fs = fs0 \cup Expected.artifacts
        /\ out = Expected.output
        /\ exc = Expected.error
        /\ (pc = "completed") <=> (Expected.error = NoError)
        /\ exit_code = <<ExitStatus(Expected.error)>>
        /\ Len(calls) = 1 /\ calls[1].sources = Expected.sources

\* C1 witness: manifest example 1.0, command sdist, run completed with the
\* artifact example-1.0 on disk.
PassThroughWitness ==
    /\ pc = "completed"
    /\ pyproject0 = Manifest("valid", "example", "1.0")
    /\ argv0 = <<"sdist">>
    /\ [kind |-> "sdist", name |-> "example", version |-> "1.0"] \in fs

NoOpWrapper ==
    [][ /\ (pc # "imported") =>
             (fs' = fs /\ out' = out /\ pyproject' = pyproject /\ sys_argv' = sys_argv)
        /\ (pc = "imported") =>
             /\ fs' = fs \cup setup({}, pyproject, sys_argv).artifacts
             /\ out' = out \o setup({}, pyproject, sys_argv).output
             /\ pyproject' = pyproject /\ sys_argv' = sys_argv ]_vars

\* C3 witness: a finished run in which the procedure wrote files and output.
NoOpWrapperWitness ==
    /\ Ended
    /\ fs # fs0
    /\ Len(out) = 2

\* C4: once the procedure has raised, the exception in flight, and the one
\* the invoking environment observes at the end, is the one it raised.
ErrorsPropagateUnchanged ==
    \A i \in 1..Len(calls) :
        calls[i].error # NoError => (pc \in {"raised", "failed"} /\ exc = calls[i].error)

\* C4 witness: an unresolvable dependency reported to the invoking environment.
ErrorsPropagateWitness ==
    /\ pc = "failed"
    /\ Len(calls) = 1
    /\ calls[1].error = "DependencyUnresolved"
    /\ exc = "DependencyUnresolved"

\* C5: a status is handed back only when the run has ended, and it is the
\* status of the procedure's own outcome in that run.
ExitCodeIsProcedures ==
    /\ ~Ended => exit_code = <<>>
    /\ Ended => (Len(calls) = 1 /\ exit_code = <<ExitStatus(calls[1].error)>>)

\* C5 witness: a malformed manifest ends the run with status 1.
ExitCodeWitness ==
    /\ pc = "failed"
    /\ pyproject0.kind = "malformed"
    /\ exit_code = <<1>>

\* C6: every call of the procedure carries no attributes, and the metadata it
\* applies comes from the manifest alone.
NoExplicitArguments ==
    \A i \in 1..Len(calls) :
        calls[i].attrs = {} /\ calls[i].sources \subseteq {"manifest"}

\* C6 witness: a call whose metadata came from the manifest.
NoExplicitArgumentsWitness ==
    /\ Len(calls) = 1
    /\ calls[1].sources = {"manifest"}
    /\ [kind |-> "build", name |-> "other", version |-> "2.0"] \in fs

\* C7: the command line is never changed by the shim, and the procedure handles
\* exactly the command line the shim was invoked with, in the same order.
ArgumentsForwarded ==
    /\ sys_argv = argv0
    /\ \A i \in 1..Len(calls) : calls[i].args = argv0

\* C7 witness: a two-command line handled in the order given.
ArgumentsForwardedWitness ==
    /\ Len(calls) = 1
    /\ calls[1].args = <<"build", "sdist">>
    /\ out = <<"build", "sdist">>

\* C8: the manifest on disk is at every point of the run what it was at
\* invocation, and nothing is persisted that the procedure did not write.
ManifestReadOnly ==
    /\ pyproject = pyproject0
    /\ Len(calls) = 0 => fs = fs0
    /\ (fs \ fs0) \subseteq Expected.artifacts

\* C8 witness: a completed run over a manifest that is still as it was.
ManifestReadOnlyWitness ==
    /\ pc = "completed"
    /\ pyproject0 = Manifest("valid", "other", "1.0")
    /\ pyproject = pyproject0
    /\ fs # fs0

\* C9: every run ends and stays ended, in completed or failed; it ends only
\* after the one call of the procedure, completed when the procedure returned
\* and failed when it raised.
RunEnds ==
    /\ <>[]Ended
    /\ [][Ended => pc' = pc]_vars
    /\ [](Ended => /\ Len(calls) = 1
                   /\ (pc = "completed") <=> (calls[1].error = NoError))

\* C9 witness: a run ended in failed after the procedure raised.
RunEndsWitness ==
    /\ pc = "failed"
    /\ Len(calls) = 1
    /\ calls[1].error = "NoCommands"

\* C10: the procedure is called at most once, and exactly once by the time
\* the call statement has run, whether the module runs as a script or is loaded.
ExactlyOneCall ==
    /\ Len(calls) <= 1
    /\ pc \in {"returned", "raised", "completed", "failed"} => Len(calls) = 1

\* C10 witness: the module was loaded, not run as a script, and the procedure
\* was called.
ExactlyOneCallWitness ==
    /\ module_name = "setup"
    /\ Ended
    /\ Len(calls) = 1

====
